---- MODULE Spec2Model ----
(***************************************************************************)
(* Model of electrode.brain.Brain (src/electrode/brain/__init__.py).       *)
(*                                                                         *)
(* The state is the Brain object's fields: loaded, _graph, _neurons and    *)
(* _synapses.  Each public method is one action.  Every action records the *)
(* call that was made (call) and how it ended (result): "None" for a       *)
(* normal return, otherwise the name of the Python exception raised.       *)
(* call.key is the key of an indexed lookup.                               *)
(* History variables: prevCall is the call made before the last one,       *)
(* everCompiled tells whether compile has been called at all, and          *)
(* requested holds the <<source, sink, synapse>> triples that callers      *)
(* handed to add_synapse before the first compile call.                    *)
(***************************************************************************)
EXTENDS Integers, Sequences, FiniteSets, TLC

VARIABLES loaded, graph, neurons, synapses,
          call, result, prevCall, everCompiled, requested

vars == <<loaded, graph, neurons, synapses,
          call, result, prevCall, everCompiled, requested>>

(***************************************************************************)
(* Bounds.                                                                 *)
(***************************************************************************)
MaxNeurons == 2
MaxSynapses == 2

(***************************************************************************)
(* Exception kinds.  The specification's error taxonomy is mapped onto the *)
(* Python exceptions the code raises.                                      *)
(***************************************************************************)
TypeError == "TypeError"
RuntimeError == "RuntimeError"
ValueError == "ValueError"
NotImplementedError == "NotImplementedError"
InvalidArgument == TypeError
LifecycleError == RuntimeError

(***************************************************************************)
(* SegmentKeys: (neuron id, port id) pairs.                                *)
(***************************************************************************)
K11 == <<"n1", "p1">>
K12 == <<"n1", "p2">>
K21 == <<"n2", "p1">>
KA == <<"c", "a">>
KB == <<"c", "b">>
KC == <<"c", "c">>
KD == <<"c", "d">>

SegmentKeys == {K11, K12, K21, KA, KB, KC, KD}

\* keys handed to the indexed lookup: one that neurons declare, one that none does
LookupKeys == {K11, <<"n9", "p9">>}

(***************************************************************************)
(* Graphs (networkx.Graph): a node set and an undirected edge map from     *)
(* {u, v} to the edge's attribute (a weight).                              *)
(***************************************************************************)
NoEdges == [e \in {} |-> 0]

EmptyGraph == [nodes |-> {}, edges |-> NoEdges]

Edge(u, v) == {u, v}

(***************************************************************************)
(* Values handed to add_neuron.  A Neuron is a graph over its own         *)
(* SegmentKeys; isNeuron is the outcome of isinstance(value, Neuron).      *)
(***************************************************************************)
MkValue(isN, ns, es) == [isNeuron |-> isN, nodes |-> ns, edges |-> es]

NeuronN1 == MkValue(TRUE, {K11}, NoEdges)
NeuronN2 == MkValue(TRUE, {K21}, NoEdges)
NeuronChain ==
    MkValue(TRUE, {KA, KB, KC, KD},
            [e \in {Edge(KA, KB), Edge(KB, KC), Edge(KC, KD)} |->
                IF e = Edge(KA, KB) THEN 1 ELSE IF e = Edge(KB, KC) THEN 2 ELSE 3])
\* declares K11 again (collides with NeuronN1)
NeuronDup == MkValue(TRUE, {K11, K12}, [e \in {Edge(K11, K12)} |-> 5])
\* declares KA, KB and the edge KA-KB again, with another weight
NeuronAB == MkValue(TRUE, {KA, KB}, [e \in {Edge(KA, KB)} |-> 7])
\* a plain graph that is not a Neuron
NotANeuron == MkValue(FALSE, {K21}, NoEdges)

Neurons == {NeuronN1, NeuronN2, NeuronChain, NeuronDup, NeuronAB}
Values == Neurons \cup {NotANeuron}

(***************************************************************************)
(* Arguments handed to add_synapse, as <<source, sink, synapse>>: a        *)
(* synapse of weight 1 from ("n1", "p1") to ("n2", "p1").                  *)
(***************************************************************************)
SynapseArgs == {<<K11, K21, 1>>}

(***************************************************************************)
(* networkx.compose / compose_all: union of nodes and edges; where both    *)
(* graphs have an edge, the later graph's attribute wins.                  *)
(***************************************************************************)
Compose(G, H) ==
    [nodes |-> G.nodes \cup H.nodes,
     edges |-> [e \in (DOMAIN G.edges) \cup (DOMAIN H.edges) |->
                   IF e \in DOMAIN H.edges THEN H.edges[e] ELSE G.edges[e]]]

AsGraph(v) == [nodes |-> v.nodes, edges |-> v.edges]

RECURSIVE ComposeFrom(_, _)
ComposeFrom(acc, gs) ==
    IF gs = <<>> THEN acc
    ELSE ComposeFrom(Compose(acc, AsGraph(Head(gs))), Tail(gs))

\* compose_all of a non-empty list
ComposeAll(gs) == ComposeFrom(AsGraph(Head(gs)), Tail(gs))

(***************************************************************************)
(* Graph.add_edge(u, v, attr): adds both end nodes and the edge.           *)
(***************************************************************************)
AddEdge(G, u, v, attr) ==
    [nodes |-> G.nodes \cup {u, v},
     edges |-> [e \in (DOMAIN G.edges) \cup {Edge(u, v)} |->
                   IF e = Edge(u, v) THEN attr ELSE G.edges[e]]]

RECURSIVE AddSynapseEdges(_, _)
AddSynapseEdges(G, ss) ==
    IF ss = <<>> THEN G
    ELSE AddSynapseEdges(AddEdge(G, Head(ss)[1], Head(ss)[2], Head(ss)[3]), Tail(ss))

(***************************************************************************)
(* list.append takes exactly one argument: a call with any other number of *)
(* positional arguments raises TypeError and leaves the list alone.        *)
(***************************************************************************)
ListAppendKeepsArgs(list, args) ==
    [raised |-> FALSE, list |-> Append(list, args)]

ListAppend(list, args) ==
    IF Len(args) = 1
    THEN [raised |-> FALSE, list |-> Append(list, args[1])]
    ELSE [raised |-> TRUE, list |-> list]

(***************************************************************************)
(* The Brain object.  Each method is an operator from the object (self)    *)
(* and the arguments to the object after the call and the call's outcome.  *)
(***************************************************************************)
Brain(l, g, ns, ss) == [loaded |-> l, graph |-> g, neurons |-> ns, synapses |-> ss]

Returns(self, res) == [self |-> self, result |-> res]

\* Brain.__init__
BrainInit == Brain(FALSE, EmptyGraph, <<>>, <<>>)

\* Brain.__getitem__
getitem(self, key) == Returns(self, NotImplementedError)

\* mutants of Brain.compile
compile_clears(self, reduce) ==
    IF reduce /\ self.neurons = <<>>
    THEN Returns(Brain(TRUE, EmptyGraph, <<>>, <<>>), ValueError)
    ELSE Returns(Brain(TRUE,
                       IF reduce
                       THEN AddSynapseEdges(ComposeAll(self.neurons), self.synapses)
                       ELSE EmptyGraph,
                       <<>>, <<>>), "None")

compile_rollback(self, reduce) ==
    IF reduce /\ self.neurons = <<>>
    THEN Returns(self, ValueError)
    ELSE Returns(Brain(TRUE,
                       IF reduce
                       THEN AddSynapseEdges(ComposeAll(self.neurons), self.synapses)
                       ELSE EmptyGraph,
                       self.neurons, self.synapses), "None")

compile_once(self, reduce) ==
    IF self.loaded
    THEN Returns(self, RuntimeError)
    ELSE IF reduce /\ self.neurons = <<>>
    THEN Returns(Brain(TRUE, EmptyGraph, self.neurons, self.synapses), ValueError)
    ELSE Returns(Brain(TRUE,
                       IF reduce
                       THEN AddSynapseEdges(ComposeAll(self.neurons), self.synapses)
                       ELSE EmptyGraph,
                       self.neurons, self.synapses), "None")

compile_incremental(self, reduce) ==
    IF reduce /\ self.neurons = <<>>
    THEN Returns(Brain(TRUE, self.graph, self.neurons, self.synapses), ValueError)
    ELSE Returns(Brain(TRUE,
                       IF reduce
                       THEN AddSynapseEdges(ComposeFrom(self.graph, self.neurons),
                                            self.synapses)
                       ELSE self.graph,
                       self.neurons, self.synapses), "None")

compile_plain_merge(self, reduce) ==
    IF self.neurons = <<>>
    THEN Returns(Brain(TRUE, EmptyGraph, self.neurons, self.synapses),
                 IF reduce THEN ValueError ELSE "None")
    ELSE Returns(Brain(TRUE,
                       AddSynapseEdges(ComposeAll(self.neurons), self.synapses),
                       self.neurons, self.synapses), "None")

\* Brain.compile
compile(self, reduce) ==
    LET flagged == Brain(TRUE, self.graph, self.neurons, self.synapses)
        fresh == Brain(flagged.loaded, EmptyGraph, flagged.neurons, flagged.synapses)
    IN  IF reduce
        THEN IF fresh.neurons = <<>>
             \* compose_all of an empty list raises; loaded and _graph are
             \* already assigned
             THEN Returns(fresh, ValueError)
             ELSE Returns(Brain(fresh.loaded,
                                AddSynapseEdges(ComposeAll(fresh.neurons),
                                                fresh.synapses),
                                fresh.neurons, fresh.synapses), "None")
        ELSE Returns(fresh, "None")

\* Brain.run
run(self) == Returns(self, NotImplementedError)

\* mutant of Brain.add_neuron: the lifecycle check is missing
add_neuron_unguarded(self, neuron) ==
    IF ~neuron.isNeuron
    THEN Returns(self, TypeError)
    ELSE Returns(Brain(self.loaded, self.graph, Append(self.neurons, neuron),
                       self.synapses), "None")

\* mutant of Brain.add_neuron: the lifecycle check comes before the type check
add_neuron_lifecycle_first(self, neuron) ==
    IF self.loaded
    THEN Returns(self, RuntimeError)
    ELSE IF ~neuron.isNeuron
    THEN Returns(self, TypeError)
    ELSE Returns(Brain(self.loaded, self.graph, Append(self.neurons, neuron),
                       self.synapses), "None")

\* mutant of Brain.add_neuron: the neuron is inserted at the front of the list
add_neuron_prepend(self, neuron) ==
    IF ~neuron.isNeuron
    THEN Returns(self, TypeError)
    ELSE IF self.loaded
    THEN Returns(self, RuntimeError)
    ELSE Returns(Brain(self.loaded, self.graph, <<neuron>> \o self.neurons,
                       self.synapses), "None")

\* mutant of Brain.add_neuron: the neuron is merged into the graph at once
add_neuron_eager(self, neuron) ==
    IF ~neuron.isNeuron
    THEN Returns(self, TypeError)
    ELSE IF self.loaded
    THEN Returns(self, RuntimeError)
    ELSE Returns(Brain(self.loaded, Compose(self.graph, AsGraph(neuron)),
                       Append(self.neurons, neuron), self.synapses), "None")

\* Brain.add_neuron
add_neuron(self, neuron) ==
    IF ~neuron.isNeuron
    THEN Returns(self, TypeError)
    ELSE IF self.loaded
    THEN Returns(self, RuntimeError)
    ELSE Returns(Brain(self.loaded, self.graph, Append(self.neurons, neuron),
                       self.synapses), "None")

\* Brain.add_synapse
add_synapse(self, synapse, source, sink) ==
    LET app == ListAppend(self.synapses, <<source, sink, synapse>>)
    IN  IF app.raised
        THEN Returns(self, TypeError)
        ELSE Returns(Brain(self.loaded, self.graph, self.neurons, app.list),
                     NotImplementedError)

(***************************************************************************)
(* The state machine.                                                      *)
(***************************************************************************)
Self == Brain(loaded, graph, neurons, synapses)

Call(op, reduce, valid, syn) ==
    [op |-> op, reduce |-> reduce, valid |-> valid, syn |-> syn, key |-> <<>>]

Apply(c, r) ==
    /\ loaded' = r.self.loaded
    /\ graph' = r.self.graph
    /\ neurons' = r.self.neurons
    /\ synapses' = r.self.synapses
    /\ result' = r.result
    /\ call' = c
    /\ prevCall' = call

Init ==
    /\ loaded = BrainInit.loaded
    /\ graph = BrainInit.graph
    /\ neurons = BrainInit.neurons
    /\ synapses = BrainInit.synapses
    /\ call = Call("init", FALSE, FALSE, <<>>)
    /\ result = "None"
    /\ prevCall = Call("init", FALSE, FALSE, <<>>)
    /\ everCompiled = FALSE
    /\ requested = {}

AddNeuron(v) ==
    /\ Len(add_neuron(Self, v).self.neurons) <= MaxNeurons
    /\ Apply(Call("add_neuron", FALSE, v.isNeuron, <<>>), add_neuron(Self, v))
    /\ UNCHANGED <<everCompiled, requested>>

AddSynapse(a) ==
    /\ Len(add_synapse(Self, a[3], a[1], a[2]).self.synapses) <= MaxSynapses
    /\ Apply(Call("add_synapse", FALSE, TRUE, a), add_synapse(Self, a[3], a[1], a[2]))
    /\ requested' = IF everCompiled THEN requested ELSE requested \cup {a}
    /\ UNCHANGED everCompiled

Compile(reduce) ==
    /\ Apply(Call("compile", reduce, TRUE, <<>>), compile(Self, reduce))
    /\ everCompiled' = TRUE
    /\ UNCHANGED requested

Run ==
    /\ Apply(Call("run", FALSE, TRUE, <<>>), run(Self))
    /\ UNCHANGED <<everCompiled, requested>>

GetItem(key) ==
    /\ Apply([Call("getitem", FALSE, TRUE, <<>>) EXCEPT !.key = key],
             getitem(Self, key))
    /\ UNCHANGED <<everCompiled, requested>>

Next ==
    \/ \E v \in Values : AddNeuron(v)
    \/ \E a \in SynapseArgs : AddSynapse(a)
    \/ \E reduce \in BOOLEAN : Compile(reduce)
    \/ Run
    \/ \E key \in LookupKeys : GetItem(key)

Spec == Init /\ [][Next]_vars

(***************************************************************************)
(* Vocabulary of the properties.  These are stated from what the          *)
(* properties say, independently of how compile computes the graph.        *)
(***************************************************************************)
\* the neuron sequence declares no SegmentKey twice
Disjoint(ns) ==
    \A i, j \in 1..Len(ns) : i # j => ns[i].nodes \cap ns[j].nodes = {}

AllNodes(ns) == UNION {ns[i].nodes : i \in 1..Len(ns)}

AllEdges(ns) == UNION {DOMAIN ns[i].edges : i \in 1..Len(ns)}

Last(S) == CHOOSE i \in S : \A j \in S : j <= i

\* the full merge of the declarations: every node and edge of every neuron
\* and one edge per synapse; the latest declaration of an edge gives its
\* attribute
Merged(ns, ss) ==
    LET synEdges == {Edge(ss[i][1], ss[i][2]) : i \in 1..Len(ss)}
    IN  [nodes |-> AllNodes(ns) \cup UNION synEdges,
         edges |-> [e \in AllEdges(ns) \cup synEdges |->
                      IF e \in synEdges
                      THEN ss[Last({i \in 1..Len(ss) : Edge(ss[i][1], ss[i][2]) = e})][3]
                      ELSE ns[Last({i \in 1..Len(ns) : e \in DOMAIN ns[i].edges})].edges[e]]]

RECURSIVE Reach(_, _)
Reach(G, S) ==
    LET S2 == S \cup {n \in G.nodes : \E m \in S : Edge(m, n) \in DOMAIN G.edges}
    IN  IF S2 = S THEN S ELSE Reach(G, S2)

\* an edge or a path joins u and v in G
Connected(G, u, v) == u \in G.nodes /\ v \in Reach(G, {u})

Degree(G, n) == Cardinality({e \in DOMAIN G.edges : n \in e})

CompileDone(reduce) == call.op = "compile" /\ call.reduce = reduce

(***************************************************************************)
(* C1.  After at least one call to compile, add_neuron with a valid Neuron *)
(* fails with LifecycleError and leaves the neuron sequence as it was.     *)
(***************************************************************************)
C1_AddNeuronAfterCompile ==
    [][(everCompiled /\ call'.op = "add_neuron" /\ call'.valid)
          => (result' = LifecycleError /\ neurons' = neurons)]_vars

C1_Witness ==
    /\ everCompiled
    /\ call.op = "add_neuron" /\ call.valid
    /\ result = LifecycleError
    /\ neurons # <<>>

(***************************************************************************)
(* C2.  After at least one call to compile, add_synapse fails with         *)
(* LifecycleError and leaves the synapse sequence as it was.               *)
(***************************************************************************)
C2_AddSynapseAfterCompile ==
    [][(everCompiled /\ call'.op = "add_synapse")
          => (result' = LifecycleError /\ synapses' = synapses)]_vars

(***************************************************************************)
(* C3.  In the Building state add_synapse(synapse, source, sink) succeeds  *)
(* and appends (source, sink, synapse) to the end of the synapse sequence. *)
(***************************************************************************)
C3_AddSynapseAppends ==
    [][(~everCompiled /\ call'.op = "add_synapse")
          => (result' = "None" /\ synapses' = Append(synapses, call'.syn))]_vars

(***************************************************************************)
(* C4.  For every neuron sequence with pairwise disjoint SegmentKeys,      *)
(* compile(reduce=true) completes and the graph's node set is the union of *)
(* the neurons' SegmentKeys.                                               *)
(***************************************************************************)
C4_CompileNodeSet ==
    (CompileDone(TRUE) /\ Disjoint(neurons))
        => (result = "None" /\ graph.nodes = AllNodes(neurons))

(***************************************************************************)
(* C5.  For every synapse (s, t, w) added before compile, the graph that   *)
(* compile produces has an edge or a path connecting s and t.              *)
(***************************************************************************)
C5_SynapsesConnected ==
    (CompileDone(TRUE) /\ result = "None")
        => \A a \in requested : Connected(graph, a[1], a[2])

(***************************************************************************)
(* C6.  The compiled flag starts false, every compile call sets it, and    *)
(* once set it stays set whatever is called afterwards.                    *)
(***************************************************************************)
C6_NeverBackToBuilding ==
    /\ ~loaded
    /\ [][(loaded => loaded') /\ (call'.op = "compile" => loaded')]_vars

C6_Witness ==
    /\ loaded
    /\ prevCall.op = "compile" /\ prevCall.reduce
    /\ call.op \in {"add_neuron", "add_synapse", "run", "getitem"}
    /\ result # "None"

(***************************************************************************)
(* C7.  From the first compile call onward the neuron sequence and the     *)
(* synapse sequence never change.                                          *)
(***************************************************************************)
C7_StructureFrozen ==
    [][(everCompiled \/ call'.op = "compile")
          => (neurons' = neurons /\ synapses' = synapses)]_vars

C7_Witness ==
    /\ everCompiled
    /\ Len(neurons) = 2
    /\ prevCall.op = "add_neuron" /\ prevCall.valid
    /\ call.op = "add_synapse"

(***************************************************************************)
(* C8.  compile(reduce=true) collapses chains of degree-2 nodes: the chain *)
(* A-B-C-D alone compiles to the single edge A-D carrying the aggregate    *)
(* (the sum) of the path's attributes; no node of degree other than 2 is   *)
(* removed.                                                                *)
(***************************************************************************)
C8_ChainReduced ==
    (CompileDone(TRUE) /\ result = "None")
        => /\ neurons = <<NeuronChain>>
                => graph = [nodes |-> {KA, KD},
                            edges |-> [e \in {Edge(KA, KD)} |-> 1 + 2 + 3]]
           /\ \A n \in AllNodes(neurons) :
                Degree(Merged(neurons, synapses), n) # 2 => n \in graph.nodes

(***************************************************************************)
(* C9.  compile called twice in a row with the same reduce argument ends   *)
(* the same way both times and leaves the same graph.                      *)
(***************************************************************************)
C9_CompileIdempotent ==
    [][(call.op = "compile" /\ call'.op = "compile" /\ call'.reduce = call.reduce)
          => (result' = result /\ graph' = graph)]_vars

C9_Witness ==
    /\ prevCall.op = "compile" /\ call.op = "compile"
    /\ prevCall.reduce /\ call.reduce
    /\ result = "None"
    /\ DOMAIN graph.edges # {}

(***************************************************************************)
(* C10.  Every compile call rebuilds the graph from scratch: the graph     *)
(* after the call is determined by the neuron sequence, the synapse        *)
(* sequence and the reduce argument alone, and nothing of the graph held   *)
(* before the call is kept.                                                *)
(***************************************************************************)
C10_FullRebuild ==
    call.op = "compile"
        => graph = (IF call.reduce THEN Merged(neurons, synapses) ELSE EmptyGraph)

C10_Witness ==
    /\ prevCall.op = "compile" /\ prevCall.reduce
    /\ call.op = "compile" /\ ~call.reduce
    /\ neurons # <<>>
    /\ graph = EmptyGraph

KeyError == "KeyError"
DuplicateSegmentError == "DuplicateSegmentError"

Exceptions ==
    {TypeError, RuntimeError, ValueError, NotImplementedError,
     KeyError, DuplicateSegmentError}

Raised == result \in Exceptions

(***************************************************************************)
(* C12.  Once the Brain is Compiled, run() returns the success indicator   *)
(* True without raising.                                                   *)
(***************************************************************************)
C12_RunSucceeds ==
    (call.op = "run" /\ loaded) => (~Raised /\ result = "True")

(***************************************************************************)
(* C13.  brain[key] fails with KeyError when the Brain has not been        *)
(* compiled or the key names no node of the compiled graph, and returns    *)
(* the node's data when the key is a node of the compiled graph.           *)
(***************************************************************************)
C13_LookupResolves ==
    call.op = "getitem"
        => IF loaded /\ call.key \in graph.nodes
           THEN ~Raised
           ELSE result = KeyError

(***************************************************************************)
(* C14.  Two added neurons that declare the same SegmentKey are reported   *)
(* as DuplicateSegmentError, at add_neuron or at compile; they are never   *)
(* merged silently into one node of the compiled graph.                    *)
(***************************************************************************)
C14_DuplicateReported ==
    (CompileDone(TRUE) /\ ~Disjoint(neurons)) => result = DuplicateSegmentError

(***************************************************************************)
(* C15.  add_neuron with a value that is not a Neuron fails with           *)
(* InvalidArgument in every lifecycle state (after compile too: the type   *)
(* check comes first) and changes neither the neuron sequence, the synapse *)
(* sequence, the compiled flag nor the graph.                              *)
(***************************************************************************)
C15_NonNeuronRejected ==
    [][(call'.op = "add_neuron" /\ ~call'.valid)
          => /\ result' = InvalidArgument
             /\ UNCHANGED <<neurons, synapses, loaded, graph>>]_vars

C15_Witness ==
    /\ everCompiled /\ loaded
    /\ call.op = "add_neuron" /\ ~call.valid
    /\ result = InvalidArgument

(***************************************************************************)
(* C16.  In the Building state add_neuron with a valid Neuron appends it   *)
(* at the end of the neuron sequence (insertion order, duplicates kept)    *)
(* and leaves the graph, the synapse sequence and the compiled flag alone. *)
(***************************************************************************)
C16_AddNeuronAppends ==
    [][\A v \in Neurons :
          (~everCompiled /\ AddNeuron(v))
              => /\ result' = "None"
                 /\ neurons' = Append(neurons, v)
                 /\ UNCHANGED <<graph, synapses, loaded>>]_vars

C16_Witness ==
    /\ ~everCompiled
    /\ call.op = "add_neuron" /\ call.valid /\ result = "None"
    /\ Len(neurons) = 2
    /\ neurons[1] = neurons[2]
    /\ prevCall.op = "add_neuron" /\ ~prevCall.valid

C18_GraphEmptyWhileBuilding ==
    ~loaded => (graph.nodes = {} /\ DOMAIN graph.edges = {})

C18_Witness ==
    /\ ~loaded
    /\ Len(neurons) = 2
    /\ DOMAIN Merged(neurons, synapses).edges # {}
    /\ call.op = "getitem"

(***************************************************************************)
(* C19.  A compile call whose merge step fails (compile(reduce=true) with  *)
(* no neurons) leaves the Brain Compiled with an empty graph, and every    *)
(* later add_neuron is rejected: a failed compile is not rolled back.      *)
(***************************************************************************)
C19_FailedCompileNotRolledBack ==
    [][/\ (call'.op = "compile" /\ result' \in Exceptions)
            => (loaded' /\ graph' = EmptyGraph)
       /\ (call.op = "compile" /\ Raised /\ call'.op = "add_neuron" /\ call'.valid)
            => (result' = LifecycleError /\ neurons' = neurons)]_vars

C19_Witness ==
    /\ prevCall.op = "compile" /\ prevCall.reduce
    /\ neurons = <<>>
    /\ call.op = "add_neuron" /\ call.valid
    /\ result = LifecycleError
    /\ loaded /\ graph = EmptyGraph

====
